---- MODULE Spec2Model ----
(***************************************************************************)
(* Model of the Duramotion catalogue scraper (src/1.py):                   *)
(*   fetch_sitemap_urls   - harvest candidate URLs from the sitemap        *)
(*   extract_product_data - fetch one page (and its English alternate)     *)
(*                          and extract the record fields                  *)
(*   main                 - harvest, thread-pool fan out, export           *)
(*                                                                         *)
(* Text is modelled as a sequence of tokens: the delimiters "/", "?", "#", *)
(* ":" and "=" are tokens of their own and every maximal run of other      *)
(* characters is one word token, so a substring test on the text is a      *)
(* contiguous-subsequence test on the tokens.                              *)
(***************************************************************************)
EXTENDS Integers, Sequences, FiniteSets, TLC

VARIABLES
    pc,          \* position of main(): "start", "submit", "pool", "export", "write",
                 \* "done", or "crashed" when an exception leaves main
    sitemap,     \* what session.get(SITEMAP_URL) will produce
    dutch_urls,  \* main.dutch_urls: the list fetch_sitemap_urls returned
    submitted,   \* number of executor.submit calls made so far
    task,        \* per candidate index: "new", "queued", "running", "done"
    future,      \* per candidate index: outcome held by its Future
    net,         \* per candidate index: what the network did to its requests
    yielded,     \* candidate indices as_completed has already yielded
    results,     \* main.results
    completed,   \* main.completed
    started,     \* per candidate index: how many times its extraction started
    files,       \* the output files written so far, each with its data rows
    diag,        \* the lines printed so far
    xin,         \* input of a stand-alone extract_product_data call
    xout         \* its return value

vars == << pc, sitemap, dutch_urls, submitted, task, future, net, yielded, results,
           completed, started, files, diag, xin, xout >>

\* ------------------------------------------------------------------ bounds
MaxLocs == 4          \* <loc> entries in a harvested sitemap
MainMaxLocs == 3      \* <loc> entries in the sitemap of a full run
MaxScripts == 2       \* ld+json script blocks on a page
MaxIcons == 2         \* elements bearing the PDF-icon class on a page
MaxLinks == 2         \* <link hreflang="en"> elements on a page

\* ------------------------------------------------------- configuration
\* src/1.py:14 sets 10000 and src/1.py:13 sets 5; both are scaled down so
\* that the cap and the worker limit bind within the bounds above.
MAX_URLS == 3
MAX_WORKERS == 2

\* The entries of BLACKLIST, each a one-token path segment.
BLACKLIST ==
    { <<w>> : w \in
      { "contact", "sitemap", "nieuws", "reviews", "cookies", "assortiment",
        "categorieen", "faq", "vacatures", "blog", "team", "partners",
        "omvormen", "kennis-partner", "technische-support", "klantportaal",
        "projectmanagement", "express-delivery", "van-der-valk", "recom",
        "algemene-voorwaarden", "privacy", "enphase", "his", "links",
        "nieuwsbrief-inschrijving", "huawei", "eaton", "cimco", "omvormers",
        "elektra", "kabels", "klein-materiaal", "onderconstructie",
        "calculators", "chint", "sas-box", "cah-caw" } }

Min(a, b) == IF a < b THEN a ELSE b

\* ------------------------------------------------------------ text helpers
\* str.lower() on one token.
LowerTok(t) ==
    CASE t = "Blog" -> "blog"
      [] t = "NL"   -> "nl"
      [] t = "FAQ"  -> "faq"
      [] OTHER      -> t

\* str.lower() on a token sequence.
Lower(s) == [i \in 1..Len(s) |-> LowerTok(s[i])]

\* needle in hay (Python substring test).
Contains(hay, needle) ==
    \E i \in 0..(Len(hay) - Len(needle)) :
        \A j \in 1..Len(needle) : hay[i + j] = needle[j]

\* Index of the first token of s that is in stops, Len(s)+1 if there is none.
FirstOf(s, stops) ==
    IF \E i \in 1..Len(s) : s[i] \in stops
    THEN CHOOSE i \in 1..Len(s) :
            s[i] \in stops /\ \A j \in 1..(i - 1) : s[j] \notin stops
    ELSE Len(s) + 1

\* TRUE iff the text starts with "scheme:".
HasScheme(url) == Len(url) >= 2 /\ url[2] = ":" /\ url[1] \notin {"/", "?", "#", ":", "="}

\* urlparse(url).path: drop "scheme:", drop "//netloc", cut at "?" or "#".
UrlPath(url) ==
    LET noScheme == IF HasScheme(url)
                    THEN SubSeq(url, 3, Len(url)) ELSE url
        noNetloc == IF Len(noScheme) >= 2 /\ noScheme[1] = "/" /\ noScheme[2] = "/"
                    THEN LET rest == SubSeq(noScheme, 3, Len(noScheme))
                         IN  SubSeq(rest, FirstOf(rest, {"/", "?", "#"}), Len(rest))
                    ELSE noScheme
    IN  SubSeq(noNetloc, 1, FirstOf(noNetloc, {"?", "#"}) - 1)

\* [p for p in path.strip('/').split('/') if p]: the maximal "/"-free runs.
RECURSIVE PathParts(_)
PathParts(path) ==
    IF path = <<>> THEN <<>>
    ELSE IF path[1] = "/" THEN PathParts(Tail(path))
    ELSE LET n == FirstOf(path, {"/"})
         IN  <<SubSeq(path, 1, n - 1)>> \o PathParts(SubSeq(path, n, Len(path)))

\* ------------------------------------------------------ fetch_sitemap_urls
\* The body of the filter loop for one <loc>: TRUE iff url is appended.
AcceptsLoc(url) ==
    /\ Contains(url, <<"/", "nl", "/">>)
    /\ LET parts == PathParts(UrlPath(url))
       IN  /\ ~(Len(parts) < 2)
           /\ LET slug == Lower(parts[Len(parts)])
                  segment_after_lang == IF Len(parts) > 1 THEN Lower(parts[2]) ELSE <<>>
              IN  ~(slug \in BLACKLIST \/ segment_after_lang \in BLACKLIST)

\* valid_urls after the loop.
ValidUrls(urls) == SelectSeq(urls, AcceptsLoc)

Range(s) == { s[i] : i \in 1..Len(s) }

\* list(set(valid_urls)): the set's iteration order is not defined, so any
\* ordering of the distinct members is a possible value.
ListOfSet(S) ==
    { s \in [1..Cardinality(S) -> S] : \A i, j \in 1..Cardinality(S) : s[i] = s[j] => i = j }

\* The off-by-one variant of the truncation.
TruncateOffByOne(unique_urls) == SubSeq(unique_urls, 1, Min(Len(unique_urls), MAX_URLS + 1))

\* unique_urls[:MAX_URLS]
Truncate(unique_urls) == SubSeq(unique_urls, 1, Min(Len(unique_urls), MAX_URLS))

\* A printed line: its text and the number it reports (0 when none).
Line(msg, n) == [msg |-> msg, n |-> n]

\* The possible outcomes of fetch_sitemap_urls for one sitemap response: the
\* list returned and the lines printed. Any exception (transport error,
\* raise_for_status) prints the error and returns [].
FetchSitemapUrls(sm) ==
    IF sm.kind # "ok"
    THEN { [ret |-> <<>>, out |-> << Line("Error fetching sitemap", 0) >>] }
    ELSE { [ret |-> Truncate(unique_urls),
            out |-> << Line("Total raw URLs", Len(sm.locs)),
                       Line("Total valid URLs", Len(unique_urls)) >>] :
           unique_urls \in ListOfSet(Range(ValidUrls(sm.locs))) }

\* --------------------------------------------------------------- values
\* An optional value (None, a missing tag, a missing attribute) is the empty
\* sequence; a present value v is <<v>>.
None == << >>
Some(v) == << v >>
IsSome(o) == o # None
Val(o) == o[1]

NA == << "N/A" >>                                  \* the absent-marker "N/A"
BASE_URL == << "https", ":", "/", "/", "www.duramotion.nl" >>

\* session.get(url, ...): requests raises (MissingSchema/InvalidURL) for a URL
\* without scheme or host before anything is sent; otherwise the outcome is
\* the one the network gives: env is [kind |-> "exc"] (connection error,
\* timeout) or [kind |-> "resp", status |-> n, page |-> p].
SessionGet(url, env) ==
    IF ~HasScheme(url) \/ Len(url) < 5 THEN [kind |-> "exc"] ELSE env

\* urljoin(BASE_URL, href) for a non-empty href.
UrlJoin(base, href) ==
    IF HasScheme(href) THEN href
    ELSE IF Len(href) >= 2 /\ href[1] = "/" /\ href[2] = "/" THEN <<base[1], base[2]>> \o href
    ELSE IF href[1] = "/" THEN base \o href
    ELSE base \o <<"/">> \o href

\* str.strip() / get_text(strip=True) on a single text node: drop the
\* whitespace tokens at both ends.
RECURSIVE LStrip(_)
LStrip(s) == IF s # <<>> /\ s[1] = " " THEN LStrip(Tail(s)) ELSE s
RECURSIVE RStrip(_)
RStrip(s) == IF s # <<>> /\ s[Len(s)] = " " THEN RStrip(SubSeq(s, 1, Len(s) - 1)) ELSE s
Strip(s) == RStrip(LStrip(s))

\* ---------------------------------------------------- extract_product_data
\* A parsed page (what BeautifulSoup's lookups on it return):
\*   parses   FALSE when BeautifulSoup(r.text, 'html.parser') raises
\*   en_links the href (an optional text) of every <link hreflang="en">, in
\*            document order
\*   h1, code_div, desc   None, or Some(text) of the first match
\*   scripts  the ld+json scripts in document order (see ScriptCode)
\*   img      None, or Some(href) of the first <a rel="productImage">
\*   icons    the elements bearing class fa-file-pdf in document order, each
\*            [isA, href, encl]: whether it is an <a>, its own href, and the
\*            href of its nearest enclosing <a> (None when not enclosed)

\* Variant of the loop iteration that looks at 'sku' before 'mpn'.
ScriptCodeSkuFirst(script) ==
    IF script.k = "bad" THEN None
    ELSE LET unwrap == script.k = "list"
             empty  == unwrap /\ script.items = <<>>
             data   == IF unwrap /\ ~empty THEN script.items[1] ELSE script
         IN  IF empty THEN None
             ELSE IF data.k = "obj"
                  THEN IF IsSome(data.sku) THEN Some(Val(data.sku))
                       ELSE IF IsSome(data.mpn) THEN Some(Val(data.mpn))
                       ELSE None
                  ELSE None

\* One iteration of the script loop: Some(code) when the iteration assigns
\* code and breaks, None when it continues (also through the bare except).
\* A script is what json.loads(script.string) gives: k = "bad" (it raises),
\* "obj" (a dict; mpn and sku are its optional fields of those names),
\* "list" (a list of items), "num" (any other JSON value).
ScriptCode(script) ==
    IF script.k = "bad" THEN None
    ELSE LET unwrap == script.k = "list"
             empty  == unwrap /\ script.items = <<>>            \* data[0]: IndexError
             data   == IF unwrap /\ ~empty THEN script.items[1] ELSE script
         IN  IF empty THEN None
             ELSE IF data.k = "obj"
                  THEN IF IsSome(data.mpn) THEN Some(Val(data.mpn))       \* 'mpn' in data
                       ELSE IF IsSome(data.sku) THEN Some(Val(data.sku))  \* 'sku' in data
                       ELSE None
                  ELSE None   \* 'mpn' in data raises TypeError

\* The for loop over scripts: the first iteration that breaks decides.
RECURSIVE ScanScripts(_)
ScanScripts(scripts) ==
    IF scripts = <<>> THEN NA
    ELSE LET c == ScriptCode(Head(scripts))
         IN  IF IsSome(c) THEN Val(c) ELSE ScanScripts(Tail(scripts))

\* Lines 128-145.
ProductCode(soup) ==
    LET code == IF IsSome(soup.code_div) THEN Strip(Val(soup.code_div)) ELSE NA
    IN  IF code = NA THEN ScanScripts(soup.scripts) ELSE code

\* tag.get('href') is truthy: the attribute exists and is not empty.
HasHref(href) == IsSome(href) /\ Val(href) # <<>>

\* Index in icons of the first element that is an <a>, 0 if there is none:
\* soup.select_one('a.fa-file-pdf').
FirstAnchor(icons) ==
    IF \E i \in 1..Len(icons) : icons[i].isA
    THEN CHOOSE i \in 1..Len(icons) : icons[i].isA /\ \A j \in 1..(i - 1) : ~icons[j].isA
    ELSE 0

\* Variant that never looks at the enclosing anchor of an icon.
PdfLinkNoParent(soup) ==
    LET a == FirstAnchor(soup.icons)
    IN  IF a # 0 /\ HasHref(soup.icons[a].href)
        THEN UrlJoin(BASE_URL, Val(soup.icons[a].href)) ELSE NA

\* Lines 155-165.
PdfLink(soup) ==
    LET a == FirstAnchor(soup.icons)
    IN  IF a # 0 /\ HasHref(soup.icons[a].href)
        THEN UrlJoin(BASE_URL, Val(soup.icons[a].href))
        ELSE IF soup.icons # <<>>                      \* soup.select_one('.fa-file-pdf')
             THEN LET parent_a == soup.icons[1].encl   \* pdf_icon.find_parent('a')
                  IN  IF IsSome(parent_a) /\ HasHref(Val(parent_a))
                      THEN UrlJoin(BASE_URL, Val(Val(parent_a)))
                      ELSE NA
             ELSE NA

\* Line 103: soup.find returns the first <link hreflang="en">, or None.
FindEnLink(soup) == IF soup.en_links = <<>> THEN None ELSE Some(soup.en_links[1])

\* Lines 124-173: the record built from the authoritative page.
Record(soup, target_url) ==
    [ code        |-> ProductCode(soup),
      title       |-> IF IsSome(soup.h1) THEN Strip(Val(soup.h1)) ELSE NA,
      description |-> IF IsSome(soup.desc) THEN Strip(Val(soup.desc)) ELSE NA,
      image_link  |-> IF IsSome(soup.img) /\ HasHref(Val(soup.img))
                      THEN UrlJoin(BASE_URL, Val(Val(soup.img))) ELSE NA,
      pdf_link    |-> PdfLink(soup),
      source_url  |-> target_url ]

\* The outcome "an exception left the try body": neither None nor Some(record).
Raised == << "raised", "raised" >>

\* Variant of the try body that forgets line 113 (target_url = english_url).
ExtractBodyKeepsUrl(dutch_url, env_nl, env_en) ==
    LET r_nl == SessionGet(dutch_url, env_nl)
    IN  IF r_nl.kind = "exc" THEN Raised
        ELSE IF r_nl.status # 200 THEN None
        ELSE IF ~r_nl.page.parses THEN Raised
        ELSE LET soup_nl == r_nl.page
                 en_link_tag == FindEnLink(soup_nl)
             IN  IF IsSome(en_link_tag) /\ HasHref(Val(en_link_tag))
                 THEN LET r_en == SessionGet(Val(Val(en_link_tag)), env_en)
                      IN  IF r_en.kind = "exc" THEN Raised
                          ELSE IF r_en.status = 200
                               THEN IF ~r_en.page.parses THEN Raised
                                    ELSE Some(Record(r_en.page, dutch_url))
                               ELSE Some(Record(soup_nl, dutch_url))
                 ELSE Some(Record(soup_nl, dutch_url))

\* Lines 90-173, the body of the try block: Some(record), None (the early
\* return of line 95), or Raised when a statement of the body raises.
ExtractBody(dutch_url, env_nl, env_en) ==
    LET r_nl == SessionGet(dutch_url, env_nl)
    IN  IF r_nl.kind = "exc" THEN Raised
        ELSE IF r_nl.status # 200 THEN None
        ELSE IF ~r_nl.page.parses THEN Raised
        ELSE LET soup_nl == r_nl.page
                 en_link_tag == FindEnLink(soup_nl)
             IN  IF IsSome(en_link_tag) /\ HasHref(Val(en_link_tag))
                 THEN LET english_url == Val(Val(en_link_tag))
                          r_en == SessionGet(english_url, env_en)
                      IN  IF r_en.kind = "exc" THEN Raised
                          ELSE IF r_en.status = 200
                               THEN IF ~r_en.page.parses THEN Raised
                                    ELSE Some(Record(r_en.page, english_url))
                               ELSE Some(Record(soup_nl, dutch_url))
                 ELSE Some(Record(soup_nl, dutch_url))

\* Variant without the try/except of lines 89 and 174-176.
ExtractNoCatch(dutch_url, env_nl, env_en) == ExtractBody(dutch_url, env_nl, env_en)

\* extract_product_data: "except Exception" turns a raise into None.
ExtractProductData(dutch_url, env_nl, env_en) ==
    LET r == ExtractBody(dutch_url, env_nl, env_en)
    IN  IF r = Raised THEN None ELSE r

\* ---------------------------------------------------------------- inputs
\* "https://" host "/" seg "/" seg ... tail
RECURSIVE Segs(_)
Segs(segs) == IF segs = <<>> THEN <<>> ELSE <<"/", Head(segs)>> \o Segs(Tail(segs))
Url(host, segs, tail) == <<"https", ":", "/", "/", host>> \o Segs(segs) \o tail

Site == "www.duramotion.nl"

\* <loc> texts a sitemap of the harvest runs can hold.
Locs ==
    { Url(Site, <<"nl", "prod-a">>, <<>>),
      Url(Site, <<"nl", "prod-b">>, <<>>),
      Url(Site, <<"nl", "blog", "post-1">>, <<>>),
      Url(Site, <<"nl", "prod-a", "FAQ">>, <<>>),
      Url(Site, <<"nl">>, <<"/">>),
      Url(Site, <<"en", "prod-a">>, <<>>),
      Url(Site, <<"shop", "nl", "blog", "post-1">>, <<>>),
      Url("nl", <<"shop", "prod-a">>, <<>>),
      Url(Site, <<"en", "prod-a">>, <<"?", "ref", "=", "/", "nl", "/">>) }

\* <loc> texts a sitemap of the full runs can hold.
MainLocs ==
    { Url(Site, <<"nl", "prod-a">>, <<>>),
      Url(Site, <<"nl", "prod-b">>, <<>>),
      Url(Site, <<"nl", "cat", "prod-c">>, <<>>),
      Url(Site, <<"nl", "blog", "post-1">>, <<>>) }

SeqsUpTo(S, n) == UNION { [1..k -> S] : k \in 0..n }

\* What the sitemap request can produce: an exception or HTTP error, or a
\* document with the given <loc> texts.
Sitemaps(L, n) == { [kind |-> "error"] } \cup { [kind |-> "ok", locs |-> l] : l \in SeqsUpTo(L, n) }

Idle == << "idle" >>
NotCalled == [done |-> FALSE, ret |-> None]

\* ------------------------------------------------------------------ main
Read == [kind |-> "read"]

\* Lines 182-187: the harvest phase; the sitemap response is consumed.
Harvest ==
    /\ pc = "start"
    /\ sitemap # Read
    /\ \E r \in FetchSitemapUrls(sitemap) :
        /\ dutch_urls' = r.ret
        /\ IF r.ret = <<>>
           THEN /\ diag' = diag \o r.out \o << Line("No URLs found. Exiting.", 0) >>
                /\ pc' = "done"
           ELSE /\ diag' = diag \o r.out
                /\ pc' = "submit"
        /\ task' = [i \in 1..Len(r.ret) |-> "new"]
        /\ future' = [i \in 1..Len(r.ret) |-> None]
        /\ net' = [i \in 1..Len(r.ret) |-> None]
        /\ started' = [i \in 1..Len(r.ret) |-> 0]
    /\ sitemap' = Read
    /\ UNCHANGED << submitted, yielded, results, completed, files, xin, xout >>

InitCommon ==
    /\ pc = "start"
    /\ dutch_urls = <<>>
    /\ submitted = 0
    /\ task = <<>>
    /\ future = <<>>
    /\ net = <<>>
    /\ yielded = {}
    /\ results = <<>>
    /\ completed = 0
    /\ started = <<>>
    /\ files = <<>>
    /\ diag = <<>>

\* fetch_sitemap_urls alone, over every sitemap of up to MaxLocs entries.
InitHarvest ==
    /\ InitCommon
    /\ sitemap \in Sitemaps(Locs, MaxLocs)
    /\ xin = Idle
    /\ xout = NotCalled

NextHarvest == Harvest

SpecHarvest == InitHarvest /\ [][NextHarvest]_vars

\* ------------------------------------------- extract_product_data inputs
HrefAbs == <<"https", ":", "/", "/", "cdn", "/", "a.pdf">>
HrefRel == <<"/", "files", "/", "b.pdf">>
HrefEncl == <<"docs", "/", "c.pdf">>
Hrefs == { None, Some(<<>>), Some(HrefAbs), Some(HrefRel) }

\* Elements bearing class fa-file-pdf.
Icons ==
    { [isA |-> TRUE, href |-> h, encl |-> e] : h \in Hrefs, e \in { None, Some(Some(HrefEncl)) } }
    \cup
    { [isA |-> FALSE, href |-> None, encl |-> e] :
        e \in { None, Some(None), Some(Some(<<>>)), Some(Some(HrefEncl)) } }

Json(k, mpn, sku, items) == [k |-> k, mpn |-> mpn, sku |-> sku, items |-> items]
Obj(mpn, sku) == Json("obj", mpn, sku, <<>>)
M1 == Some(<<"M1">>)
M2 == Some(<<"M2">>)
S1 == Some(<<"S1">>)

\* ld+json scripts.
Scripts ==
    { Obj(None, None), Obj(M1, None), Obj(None, S1), Obj(M1, S1),
      Json("bad", None, None, <<>>),
      Json("num", None, None, <<>>),
      Json("list", None, None, <<>>),
      Json("list", None, None, << Obj(M2, None) >>),
      Json("list", None, None, << Obj(None, None), Obj(None, S1) >>) }

CodeDivs == { None, Some(<<" ", "ZL-1", " ">>), Some(<<" ", "N/A">>), Some(<<>>) }

BasePage ==
    [ parses   |-> TRUE,
      en_links |-> <<>>,
      h1       |-> Some(<<"Title">>),
      code_div |-> Some(<<"ZL-1">>),
      scripts  |-> <<>>,
      desc     |-> Some(<<"Text">>),
      img      |-> Some(Some(HrefRel)),
      icons    |-> <<>> ]

Unparsable == [BasePage EXCEPT !.parses = FALSE]

\* Pages that differ in what the field extraction reads.
ContentPages ==
    { [BasePage EXCEPT !.code_div = c, !.scripts = sc] :
        c \in CodeDivs, sc \in SeqsUpTo(Scripts, MaxScripts) }
    \cup { [BasePage EXCEPT !.icons = ic] : ic \in SeqsUpTo(Icons, MaxIcons) }
    \cup { [BasePage EXCEPT !.h1 = None, !.desc = None, !.img = i] : i \in {None} \cup {Some(h) : h \in Hrefs} }
    \cup { Unparsable }

\* Pages an English alternate is answered with.
EnglishPages == { p \in ContentPages : Len(p.scripts) <= 1 /\ Len(p.icons) <= 1 }

EnglishUrl == Url(Site, <<"en", "prod-a">>, <<>>)

\* Pages that differ in their <link hreflang="en"> elements.
LinkHrefs == { None, Some(<<>>), Some(EnglishUrl), Some(<<"/", "en", "prod-a">>) }
LinkPages == { [BasePage EXCEPT !.en_links = l] : l \in SeqsUpTo(LinkHrefs, MaxLinks) }

Exc == [kind |-> "exc"]
Resp(status, page) == [kind |-> "resp", status |-> status, page |-> page]

DutchUrls == { Url(Site, <<"nl", "prod-a">>, <<>>), <<"/", "nl", "/", "prod-a">> }

\* Calls of extract_product_data: candidate URL, outcome of the first request,
\* outcome of the request for the English alternate (if one is made).
Calls ==
    { [url |-> u, nl |-> Resp(200, p), en |-> Exc] : u \in DutchUrls, p \in ContentPages }
    \cup
    { [url |-> u, nl |-> n, en |-> e] :
        u \in DutchUrls,
        n \in { Exc, Resp(404, BasePage) } \cup { Resp(200, p) : p \in LinkPages \cup {Unparsable} },
        e \in { Exc, Resp(500, BasePage) } \cup { Resp(200, p) : p \in EnglishPages } }

\* One call of extract_product_data.
ExtractCall ==
    /\ ~xout.done
    /\ xout' = [done |-> TRUE, ret |-> ExtractProductData(xin.url, xin.nl, xin.en)]
    /\ UNCHANGED << pc, sitemap, dutch_urls, submitted, task, future, net, yielded, results,
                    completed, started, files, diag, xin >>

InitExtract ==
    /\ InitCommon
    /\ sitemap = Read
    /\ xin \in Calls
    /\ xout = NotCalled

NextExtract == ExtractCall

SpecExtract == InitExtract /\ [][NextExtract]_vars

\* ------------------------------------------------------- main, continued
\* Lines 190-191: the next executor.submit of the dict comprehension; after
\* the last one main enters the as_completed loop.
Submit ==
    /\ pc = "submit"
    /\ submitted < Len(dutch_urls)
    /\ submitted' = submitted + 1
    /\ task' = [task EXCEPT ![submitted + 1] = "queued"]
    /\ pc' = IF submitted + 1 = Len(dutch_urls) THEN "pool" ELSE "submit"
    /\ UNCHANGED << sitemap, dutch_urls, future, net, yielded, results, completed,
                    started, files, diag, xin, xout >>

Running == { i \in DOMAIN task : task[i] = "running" }

\* A pool thread takes the oldest queued work item; the executor never has
\* more than MAX_WORKERS threads.
StartTask(i) ==
    /\ task[i] = "queued"
    /\ \A j \in 1..(i - 1) : task[j] # "queued"
    /\ Cardinality(Running) < MAX_WORKERS
    /\ task' = [task EXCEPT ![i] = "running"]
    /\ started' = [started EXCEPT ![i] = @ + 1]
    /\ UNCHANGED << pc, sitemap, dutch_urls, submitted, future, net, yielded, results,
                    completed, files, diag, xin, xout >>

\* What the network can do to the two requests of one extraction in a full run.
LinkPage == [BasePage EXCEPT !.en_links = << Some(EnglishUrl) >>]
MainNets ==
    { [nl |-> Exc, en |-> Exc],
      [nl |-> Resp(404, BasePage), en |-> Exc],
      [nl |-> Resp(200, Unparsable), en |-> Exc],
      [nl |-> Resp(200, BasePage), en |-> Exc],
      [nl |-> Resp(200, LinkPage), en |-> Exc],
      [nl |-> Resp(200, LinkPage), en |-> Resp(500, BasePage)],
      [nl |-> Resp(200, LinkPage), en |-> Resp(200, BasePage)] }

\* The extraction of candidate i runs to its return; the Future holds the
\* return value (or the exception that left the call).
FinishTask(i) ==
    /\ task[i] = "running"
    /\ \E n \in MainNets :
        /\ net' = [net EXCEPT ![i] = Some(n)]
        /\ future' = [future EXCEPT ![i] = ExtractProductData(dutch_urls[i], n.nl, n.en)]
    /\ task' = [task EXCEPT ![i] = "done"]
    /\ UNCHANGED << pc, sitemap, dutch_urls, submitted, yielded, results, completed,
                    started, files, diag, xin, xout >>

\* Line 195 with all results truthy.
AlwaysTruthy(data) == TRUE

\* Line 195, "if data:": None is falsy, a record (a dict of six keys) is truthy.
Truthy(data) == IsSome(data)

\* Lines 193-199: as_completed yields a finished future that it has not
\* yielded yet; future.result() re-raises an exception of the task.
Collect(i) ==
    /\ pc = "pool"
    /\ task[i] = "done"
    /\ i \notin yielded
    /\ IF future[i] = Raised
       THEN /\ pc' = "crashed"
            /\ UNCHANGED << yielded, results, completed >>
       ELSE /\ pc' = pc
            /\ yielded' = yielded \cup {i}
            /\ results' = IF Truthy(future[i]) THEN Append(results, future[i]) ELSE results
            /\ completed' = completed + 1
    /\ UNCHANGED << sitemap, dutch_urls, submitted, task, future, net, started, files,
                    diag, xin, xout >>

\* as_completed stopping after the first future.
ExhaustedAfterFirst == yielded # {}

\* as_completed has yielded every future of future_to_url.
Exhausted == yielded = DOMAIN task

\* The for loop ends and the with block is left (shutdown(wait=True)).
ExitPool ==
    /\ pc = "pool"
    /\ Exhausted
    /\ \A i \in DOMAIN task : task[i] \notin {"queued", "running"}
    /\ pc' = "export"
    /\ UNCHANGED << sitemap, dutch_urls, submitted, task, future, net, yielded, results,
                    completed, started, files, diag, xin, xout >>

\* Line 201 without the emptiness test.
NeverAbort(res) == FALSE

\* Line 201: "if not results".
AbortExport(res) == res = <<>>

\* Lines 201-204.
ExportCheck ==
    /\ pc = "export"
    /\ IF AbortExport(results)
       THEN /\ diag' = Append(diag, Line("No results extracted.", 0))
            /\ pc' = "done"
       ELSE /\ diag' = diag
            /\ pc' = "write"
    /\ UNCHANGED << sitemap, dutch_urls, submitted, task, future, net, yielded, results,
                    completed, started, files, xin, xout >>

\* Lines 223-231: a URL column cell.
LinkCell(v) ==
    IF v # NA THEN [kind |-> "url", target |-> v, text |-> v]
    ELSE [kind |-> "string", text |-> NA]

\* Lines 205-231: one data row per entry of results, in order.
Rows(res) ==
    [ k \in 1..Len(res) |->
        [ record |-> Val(res[k]),
          image  |-> LinkCell(Val(res[k]).image_link),
          pdf    |-> LinkCell(Val(res[k]).pdf_link) ] ]

\* Lines 205-233.
WriteFile ==
    /\ pc = "write"
    /\ files' = Append(files, [name |-> "Duramotion_Full_Catalog.xlsx", rows |-> Rows(results)])
    /\ pc' = "done"
    /\ UNCHANGED << sitemap, dutch_urls, submitted, task, future, net, yielded, results,
                    completed, started, diag, xin, xout >>

InitMain ==
    /\ InitCommon
    /\ sitemap \in Sitemaps(MainLocs, MainMaxLocs)
    /\ xin = Idle
    /\ xout = NotCalled

Next ==
    \/ Harvest
    \/ Submit
    \/ \E i \in DOMAIN task : StartTask(i)
    \/ \E i \in DOMAIN task : FinishTask(i)
    \/ \E i \in DOMAIN task : Collect(i)
    \/ ExitPool
    \/ ExportCheck
    \/ WriteFile

Spec == InitMain /\ [][Next]_vars

\* Every thread that can take a step eventually takes one, and every request
\* ends (with a response, an error or its timeout).
FairSpec == Spec /\ WF_vars(Next)

\* -------------------------------------------------- claims on the harvest
Parts(url) == PathParts(UrlPath(url))
Returned == pc # "start"
Accepted == { sitemap.locs[i] : i \in { j \in 1..Len(sitemap.locs) : AcceptsLoc(sitemap.locs[j]) } }
Printed(msg) == { diag[k].n : k \in { j \in 1..Len(diag) : diag[j].msg = msg } }

\* C1: for every location fetch_sitemap_urls accepts, neither its last path
\* segment nor the segment right after the language marker segment 'nl',
\* wherever that marker is in the path, is (case-insensitively) in BLACKLIST.
C1_NoBlacklistedSegment ==
    Returned =>
        \A k \in 1..Len(dutch_urls) :
            LET parts == Parts(dutch_urls[k])
            IN  /\ parts # <<>> => Lower(parts[Len(parts)]) \notin BLACKLIST
                /\ \A i \in 1..(Len(parts) - 1) :
                       parts[i] = <<"nl">> => Lower(parts[i + 1]) \notin BLACKLIST

\* C8: every sitemap entry whose URL path has no 'nl' segment is excluded,
\* whatever host, query string and fragment contain.
C8_MarkerInPath ==
    Returned =>
        \A k \in 1..Len(dutch_urls) :
            \E i \in 1..Len(Parts(dutch_urls[k])) : Parts(dutch_urls[k])[i] = <<"nl">>

\* C7: fetch_sitemap_urls returns at most MAX_URLS candidates, all distinct
\* and all accepted, and exactly MAX_URLS of them when more than MAX_URLS
\* distinct locations were accepted.
C7_Truncation ==
    [][ (pc = "start" /\ pc' # "start") =>
          /\ Len(dutch_urls') <= MAX_URLS
          /\ Cardinality(Range(dutch_urls')) = Len(dutch_urls')
          /\ sitemap.kind = "ok" =>
               /\ Range(dutch_urls') \subseteq Accepted
               /\ Cardinality(Accepted) > MAX_URLS => Len(dutch_urls') = MAX_URLS ]_vars

C7_Witness ==
    /\ Returned
    /\ \E n \in Printed("Total valid URLs") : n > MAX_URLS
    /\ Len(dutch_urls) = MAX_URLS

\* ----------------------------------------------- claims on the extraction
FirstResp == SessionGet(xin.url, xin.nl)
FirstOk == FirstResp.kind = "resp" /\ FirstResp.status = 200
Links == FirstResp.page.en_links
\* The first hreflang='en' link exists and has a non-empty href.
LinkPresent == Links # <<>> /\ HasHref(Links[1])
AltResp == SessionGet(Val(Links[1]), xin.en)
AltOk == LinkPresent /\ AltResp.kind = "resp" /\ AltResp.status = 200
\* The page a returned record is built from.
Authoritative == IF AltOk THEN AltResp.page ELSE FirstResp.page
Rec == Val(xout.ret)
GotRecord == xout.done /\ IsSome(xout.ret)
\* Some hreflang='en' link has a non-empty href; the first such href.
WithHref == { i \in 1..Len(Links) : HasHref(Links[i]) }
AnyHref == Val(Links[CHOOSE i \in WithHref : \A j \in WithHref : i <= j])
AnyAltOk ==
    /\ WithHref # {}
    /\ SessionGet(AnyHref, xin.en).kind = "resp"
    /\ SessionGet(AnyHref, xin.en).status = 200

\* C2 as stated: when the first fetch returns 200 (and the fetched pages
\* parse), a record is returned; its Source URL is the alternate's URL exactly
\* when an hreflang='en' link with an href is present and fetching it returns
\* 200; without such a link or when the alternate fetch fails in any way
\* (non-200 or an exception) the record is built from the first page with the
\* candidate URL as Source URL.
C2_FallbackOnAnyFailure ==
    (xout.done /\ FirstOk /\ FirstResp.page.parses /\ (AnyAltOk => xin.en.page.parses)) =>
        /\ IsSome(xout.ret)
        /\ AnyAltOk => Rec.source_url = AnyHref
        /\ ~AnyAltOk => Rec = Record(FirstResp.page, xin.url)

\* A statement of the try body raises after a first fetch that returned 200.
RaisesAfterFirst ==
    \/ ~FirstResp.page.parses
    \/ LinkPresent /\ AltResp.kind = "exc"
    \/ AltOk /\ ~AltResp.page.parses

\* C2 amended: when the first fetch returns 200 and nothing raises, a record is
\* returned, from the alternate's page and with the alternate's URL as Source
\* URL exactly when the first hreflang='en' link of the page has a non-empty
\* href and fetching it returns 200, and from the first page with the
\* candidate URL when the page has no hreflang='en' link, its first one has no
\* href, or the alternate returns a non-200 status; when the alternate request
\* raises (network error, timeout, unusable href) or a fetched page cannot be
\* parsed, the extraction yields absent.
C2_LocalizationFallback ==
    (xout.done /\ FirstOk) =>
        /\ RaisesAfterFirst => xout.ret = None
        /\ ~RaisesAfterFirst =>
             /\ IsSome(xout.ret)
             /\ AltOk => (Rec.source_url = Val(Links[1]) /\ Rec.code = ProductCode(AltResp.page))
             /\ ~AltOk => (Rec.source_url = xin.url /\ Rec.code = ProductCode(FirstResp.page))

C2_Witness ==
    /\ xout.done /\ FirstOk
    /\ LinkPresent /\ AltResp.kind = "resp" /\ AltResp.status = 500
    /\ IsSome(xout.ret)
    /\ Rec.source_url = xin.url

\* C9 as stated: the code is the container's text whenever the container
\* exists, and the scripts decide only when it is absent.
HasCode(d) == d.k = "obj" /\ (IsSome(d.mpn) \/ IsSome(d.sku))
CodeOf(d) == IF IsSome(d.mpn) THEN Val(d.mpn) ELSE Val(d.sku)
\* The data a script stands for: a list-valued script is its first element.
DataOf(sc) == IF sc.k = "list" /\ sc.items # <<>> THEN sc.items[1] ELSE sc
Matching(scripts) == { i \in 1..Len(scripts) : HasCode(DataOf(scripts[i])) }
FirstMatchCode(scripts) ==
    IF Matching(scripts) = {} THEN NA
    ELSE CodeOf(DataOf(scripts[CHOOSE i \in Matching(scripts) : \A j \in Matching(scripts) : i <= j]))

C9_ContainerWins ==
    GotRecord =>
        LET soup == Authoritative
        IN  /\ IsSome(soup.code_div) => Rec.code = Strip(Val(soup.code_div))
            /\ ~IsSome(soup.code_div) => Rec.code = FirstMatchCode(soup.scripts)

\* C9 amended: the code is the container's (stripped) text when the container
\* exists and that text is not 'N/A'; when the container is absent or its text
\* is 'N/A', the code is the mpn, else sku, of the first script - a list
\* counting as its first element - that has one of them, and 'N/A' if no
\* script has; scripts that do not parse are skipped.
C9_ProductCode ==
    GotRecord =>
        LET soup == Authoritative
            fromDiv == IsSome(soup.code_div) /\ Strip(Val(soup.code_div)) # NA
        IN  /\ fromDiv => Rec.code = Strip(Val(soup.code_div))
            /\ ~fromDiv => Rec.code = FirstMatchCode(soup.scripts)

C9_Witness ==
    /\ GotRecord
    /\ ~IsSome(Authoritative.code_div)
    /\ Len(Authoritative.scripts) = 2
    /\ Authoritative.scripts[1].k = "bad"
    /\ Authoritative.scripts[2].k = "obj"
    /\ IsSome(Authoritative.scripts[2].mpn) /\ IsSome(Authoritative.scripts[2].sku)
    /\ Rec.code = <<"M1">>

IconsOf(soup) == soup.icons
AnchorsWithHref(ic) == { i \in 1..Len(ic) : ic[i].isA /\ HasHref(ic[i].href) }
Enclosed(ic) == { i \in 1..Len(ic) : IsSome(ic[i].encl) /\ HasHref(Val(ic[i].encl)) }

\* C10 as stated: the link is the href of a PDF-icon anchor when one with an
\* href exists, otherwise the href of the enclosing anchor of a PDF-icon
\* element, and 'N/A' only when the page has neither.
C10_AnyIcon ==
    GotRecord =>
        LET ic == IconsOf(Authoritative)
        IN  /\ AnchorsWithHref(ic) # {} =>
                 Rec.pdf_link \in { UrlJoin(BASE_URL, Val(ic[i].href)) : i \in AnchorsWithHref(ic) }
            /\ (AnchorsWithHref(ic) = {} /\ Enclosed(ic) # {}) =>
                 Rec.pdf_link \in { UrlJoin(BASE_URL, Val(Val(ic[i].encl))) : i \in Enclosed(ic) }
            /\ Rec.pdf_link = NA => (AnchorsWithHref(ic) = {} /\ Enclosed(ic) = {})

\* C10 amended: the link is the absolute URL of the href of the first anchor
\* carrying the PDF-icon class when that anchor has a non-empty href;
\* otherwise that of the nearest enclosing anchor of the first element bearing
\* the class, when that anchor has a non-empty href; otherwise 'N/A'.
C10_PdfLink ==
    GotRecord =>
        LET ic == IconsOf(Authoritative)
            anchors == { i \in 1..Len(ic) : ic[i].isA }
            first == CHOOSE i \in anchors : \A j \in anchors : i <= j
            byAnchor == anchors # {} /\ first \in AnchorsWithHref(ic)
            byParent == ~byAnchor /\ 1 \in Enclosed(ic)
        IN  /\ byAnchor => Rec.pdf_link = UrlJoin(BASE_URL, Val(ic[first].href))
            /\ byParent => Rec.pdf_link = UrlJoin(BASE_URL, Val(Val(ic[1].encl)))
            /\ (~byAnchor /\ ~byParent) => Rec.pdf_link = NA

C10_Witness ==
    /\ GotRecord
    /\ Len(IconsOf(Authoritative)) = 2
    /\ ~IconsOf(Authoritative)[1].isA
    /\ IconsOf(Authoritative)[2].isA
    /\ ~HasHref(IconsOf(Authoritative)[2].href)
    /\ Rec.pdf_link = BASE_URL \o <<"/">> \o HrefEncl

\* ------------------------------------------------- claims on the full run
Candidates == DOMAIN task
PoolLeft == pc \in {"export", "write", "done"} /\ dutch_urls # <<>>
Succeeded == { i \in Candidates : task[i] = "done" /\ future[i] # Raised /\ IsSome(future[i]) }
IsPrefix(a, b) == Len(a) <= Len(b) /\ SubSeq(b, 1, Len(a)) = a

\* C3: under every interleaving the result collection holds no absent entry,
\* and it only grows: what was appended stays, in place.
C3_NoAbsentAppendOnly ==
    /\ [](\A k \in 1..Len(results) : results[k] # None)
    /\ [][IsPrefix(results, results')]_vars

C3_Witness ==
    /\ \E i \in yielded : future[i] = None
    /\ \E i \in yielded : IsSome(future[i]) /\ future[i] \in Range(results)
    /\ Len(results) = 2

\* An extraction failed: a request raised, the first status was not 200, or a
\* fetched page could not be parsed.
Failed(i) ==
    LET n == Val(net[i])
        first == SessionGet(dutch_urls[i], n.nl)
    IN  \/ first.kind = "exc"
        \/ first.status # 200
        \/ ~first.page.parses
        \/ /\ first.page.en_links # <<>> /\ HasHref(first.page.en_links[1])
           /\ LET alt == SessionGet(Val(first.page.en_links[1]), n.en)
              IN  alt.kind = "exc" \/ (alt.status = 200 /\ ~alt.page.parses)

\* C4: a failure inside one extraction makes that extraction yield absent and
\* nothing else: no exception reaches main, and once the pool is left every
\* candidate has been extracted and every successful one is in the results.
C4_FailureIsolated ==
    /\ pc # "crashed"
    /\ \A i \in Candidates : task[i] = "done" =>
           /\ future[i] # Raised
           /\ Failed(i) => future[i] = None
           /\ ~Failed(i) => IsSome(future[i])
    /\ PoolLeft => \A i \in Candidates :
           /\ task[i] = "done"
           /\ IsSome(future[i]) => future[i] \in Range(results)

C4_Witness ==
    /\ pc = "done"
    /\ \E i \in Candidates : Val(net[i]).nl = Resp(200, LinkPage) /\ Val(net[i]).en = Exc
                             /\ future[i] = None
    /\ \E i \in Candidates : Val(net[i]).nl = Resp(200, Unparsable) /\ future[i] = None
    /\ \E i \in Candidates : IsSome(future[i]) /\ future[i] \in Range(results)
    /\ Len(files) = 1

\* C5: a run ends with exactly one output file, which happens iff at least one
\* extraction yielded a record, or with no file and one diagnostic, which
\* happens when the harvest is empty or every extraction yielded absent; the
\* file is never written from an empty result collection, nothing is submitted
\* when the harvest is empty, and no run stops before its end.
C5_Outcomes ==
    /\ Len(files) <= 1
    /\ pc # "done" => (files = <<>> /\ ENABLED Next)
    /\ pc = "write" => results # <<>>
    /\ (pc # "start" /\ dutch_urls = <<>>) => (pc = "done" /\ submitted = 0 /\ task = <<>>)
    /\ pc = "done" =>
         /\ Len(files) = 1 <=> Succeeded # {}
         /\ Len(files) = 1 =>
              Printed("No URLs found. Exiting.") \cup Printed("No results extracted.") = {}
         /\ Len(files) = 0 =>
              /\ dutch_urls = <<>> <=> Printed("No URLs found. Exiting.") # {}
              /\ dutch_urls # <<>> <=> Printed("No results extracted.") # {}

C5_Witness ==
    /\ pc = "done"
    /\ Len(dutch_urls) = 3
    /\ Succeeded = {}
    /\ files = <<>>
    /\ Printed("No results extracted.") # {}

\* Number of occurrences of v in sequence q.
Count(q, v) == Cardinality({ k \in 1..Len(q) : q[k] = v })

\* C6: every candidate is extracted exactly once; export begins only after
\* every task completed; the exported rows are, record by record, as many as
\* the candidates whose extraction yielded that record.
C6_ExactlyOnce ==
    /\ \A i \in Candidates : started[i] <= 1
    /\ Cardinality(Range(dutch_urls)) = Len(dutch_urls)
    /\ PoolLeft => \A i \in Candidates : task[i] = "done" /\ started[i] = 1 /\ i \in yielded
    /\ PoolLeft => Len(results) = Cardinality(Succeeded)
    /\ \A f \in Range(files) :
         /\ Len(f.rows) = Cardinality(Succeeded)
         /\ \A i \in Succeeded :
              Count([k \in 1..Len(f.rows) |-> f.rows[k].record], Val(future[i]))
                  = Cardinality({ j \in Succeeded : future[j] = future[i] })

C6_Witness ==
    /\ pc = "done"
    /\ Len(dutch_urls) = 3
    /\ Cardinality(Succeeded) = 2
    /\ Len(files) = 1
    /\ Len(files[1].rows) = 2
    /\ files[1].rows[1].record.source_url # files[1].rows[2].record.source_url

\* Every run reaches its end.
Termination == <>(pc = "done")

====
